---- MODULE Spec2Model ----
(***************************************************************************)
(* A model of the Chat component of doe-frontend/src/pages/Chat.tsx: its   *)
(* React state (messages, searchInput, loading, error, isRecording), its   *)
(* refs (mediaRecorderRef, audioChunksRef), the handleSearch invocations   *)
(* suspended at an await, and the startRecording / MediaRecorder.onstop /  *)
(* sendAudioToBackend invocations suspended at an await.                   *)
(*                                                                         *)
(* A JavaScript string is a sequence of tokens: a query is a sequence of   *)
(* one-character tokens (so that trim() is computed), a literal of the     *)
(* source is one token, and a template literal is the concatenation of its *)
(* parts.  The placeholder state is not modelled: it is written only by    *)
(* the recording handlers and read only by the renderer.                   *)
(***************************************************************************)
EXTENDS Integers, Sequences, FiniteSets, TLC

\* ---------------------------------------------------------------- bounds
\* handler invocations that reach an await (handleSearch past the trim()
\* test, startRecording), over the whole run
MaxCalls == 2

\* ---------------------------------------------------------------- inputs
\* what the user can have typed into the input field
QuerySet == { <<>>, <<" ">>, <<" ", "a", " ">> }
\* response.status of a settled /api/search fetch
StatusSet == { 200, 404, 500 }
\* the text field of an /api/stt reply ("" is falsy)
SttTextSet == { <<>>, <<" ", "a", " ">> }

\* String(status) inside the template literal of line 81
StatusText(status) ==
  CASE status = 200 -> "200"
    [] status = 404 -> "404"
    [] status = 500 -> "500"

\* the bodies response.json() can meet: a body that is not JSON, the JSON
\* null, and a JSON object with an optional error member (absent, "" or a
\* message) and a summary and results
BodySet ==
  { [kind |-> "malformed"], [kind |-> "null"] }
  \cup { [kind |-> "object", error |-> e, summary |-> "S1", results |-> <<"r1">>] :
           e \in { "absent", "", "boom" } }

\* ---------------------------------------------------------------- state
VARIABLES messages, searchInput, loading, error,
          isRecording, mediaRecorderRef, audioChunksRef,
          searches, recs, lastOp

vars == <<messages, searchInput, loading, error,
          isRecording, mediaRecorderRef, audioChunksRef,
          searches, recs, lastOp>>

\* lastOp is a history variable no handler reads: it tells from every
\* other step a call of handleSearch (with its argument), a call of
\* stopRecording (with whether MediaRecorder.stop() threw), the end of a
\* failed handleSearch (with what became of responseClone.text()) and the
\* end of sendAudioToBackend (with what the reply was)
OtherOp == [op |-> "other"]

chatVars == <<messages, searchInput, loading, error>>
recVars == <<isRecording, mediaRecorderRef, audioChunksRef, recs>>

\* useState<string | null>(null): null, or a string
NullError == [isNull |-> TRUE]
ErrorString(s) == [isNull |-> FALSE, str |-> s]

\* String.prototype.trim on a sequence of one-character tokens
IsSpace(c) == c = " "

RECURSIVE TrimStart(_)
TrimStart(s) ==
  IF s = <<>> THEN <<>>
  ELSE IF IsSpace(Head(s)) THEN TrimStart(Tail(s)) ELSE s

RECURSIVE TrimEnd(_)
TrimEnd(s) ==
  IF s = <<>> THEN <<>>
  ELSE IF IsSpace(s[Len(s)]) THEN TrimEnd(SubSeq(s, 1, Len(s) - 1)) ELSE s

\* the test of line 56 without trim()
TrimOmitted(s) == s

Trim(s) == TrimEnd(TrimStart(s))

\* JavaScript truthiness of a string member that may be absent
Truthy(v) == v # "absent" /\ v # ""

\* ------------------------------------------------- handleSearch (54-120)
\* what a catch clause can receive; every thrown value here is an Error
NoError == [name |-> "none", isError |-> FALSE, message |-> <<>>]
ThrownError(name, message) == [name |-> name, isError |-> TRUE, message |-> message]

\* err instanceof SyntaxError
IsSyntaxError(err) == err.name = "SyntaxError"

\* response.ok
ResponseOk(status) == status >= 200 /\ status <= 299

\* line 59
UserMessage(userQuery) ==
  [sender |-> "user", text |-> userQuery, originalQuery |-> userQuery]

\* lines 84-94
BotMessage(data, userQuery) ==
  [sender |-> "bot", text |-> <<>>, isSearchResult |-> TRUE,
   searchSummary |-> data.summary, searchResults |-> data.results,
   originalQuery |-> userQuery]

\* line 81: new Error(data.error || `Server error: ${response.status}`)
ServerError(data, status) ==
  ThrownError("Error",
              IF Truthy(data.error) THEN <<data.error>>
              ELSE <<"Server error: ", StatusText(status)>>)

\* line 109
ErrorMessage(err) ==
  IF err.isError THEN err.message
  ELSE <<"An unknown error occurred during search.">>

\* lines 110-116 with the 404 test alone, without err instanceof SyntaxError
ErrorReportByStatusOnly(err, status, userQuery) ==
  IF status = 404
  THEN [error |-> ErrorString(<<"API endpoint not found (404). Please check the server route.">>),
        message |-> [sender |-> "system",
                     text |-> <<"Error: API endpoint /api/search not found (404).">>]]
  ELSE [error |-> ErrorString(ErrorMessage(err)),
        message |-> [sender |-> "system",
                     text |-> <<"Error searching for \"">> \o userQuery
                              \o <<"\": ">> \o ErrorMessage(err)]]

\* lines 110-116: the error string and the system message of a failure;
\* status is 0 when responseClone is null
ErrorReport(err, status, userQuery) ==
  IF IsSyntaxError(err) /\ status = 404
  THEN [error |-> ErrorString(<<"API endpoint not found (404). Please check the server route.">>),
        message |-> [sender |-> "system",
                     text |-> <<"Error: API endpoint /api/search not found (404).">>]]
  ELSE [error |-> ErrorString(ErrorMessage(err)),
        message |-> [sender |-> "system",
                     text |-> <<"Error searching for \"">> \o userQuery
                              \o <<"\": ">> \o ErrorMessage(err)]]

\* line 80 without the test of data.error
ResponseFailedByStatusOnly(data, status) == ~ResponseOk(status)

\* line 80
ResponseFailed(data, status) == ~ResponseOk(status) \/ Truthy(data.error)

\* setMessages((prev) => [message, ...prev])
PrependMessage(prev, message) == <<message>> \o prev

\* setMessages((prev) => [...prev, message]) of lines 59, 84, 112, 115
AppendMessage(prev, message) == Append(prev, message)

\* one handleSearch invocation past the trim() test: where it is suspended,
\* its local userQuery, the status of responseClone (0: null), the body
\* response.json() met, the caught error, and a history field no handler
\* reads: the positions of messages this invocation appended at
NoBody == [kind |-> "none"]

NewSearch(userQuery, position) ==
  [pc |-> "fetch", userQuery |-> userQuery, status |-> 0, body |-> NoBody,
   err |-> NoError, appended |-> <<position>>]

\* no room left for another invocation within the bounds
CallsExhausted == Len(searches) + Len(recs) >= MaxCalls

\* lines 54-66, up to the await of fetch; both callers (lines 384, 391)
\* pass an argument, so query ?? searchInput is query
HandleSearch(query) ==
  LET userQuery == query
  IN IF Trim(userQuery) = <<>>
     THEN /\ lastOp' = [op |-> "handleSearch", query |-> query]
          /\ UNCHANGED <<chatVars, recVars, searches>>
     ELSE /\ ~CallsExhausted
          /\ messages' = AppendMessage(messages, UserMessage(userQuery))
          /\ searchInput' = <<>>
          /\ loading' = TRUE
          /\ error' = NullError
          /\ searches' = Append(searches, NewSearch(userQuery, Len(messages) + 1))
          /\ lastOp' = [op |-> "handleSearch", query |-> query]
          /\ UNCHANGED recVars

\* lines 95-116 with setLoading(false) at the end of the try block instead
\* of in a finally clause
CatchWithoutFinally(i, err, rawText) ==
  LET s == searches[i]
      report == ErrorReport(err, s.status, s.userQuery)
  IN /\ error' = report.error
     /\ messages' = AppendMessage(messages, report.message)
     /\ searches' = [searches EXCEPT ![i].pc = "done", ![i].err = err,
                                     ![i].appended = Append(@, Len(messages) + 1)]
     /\ lastOp' = [op |-> "searchFailed", rawText |-> rawText]
     /\ UNCHANGED <<searchInput, loading, recVars>>

\* lines 95-119 after the inner try: the catch block's report and finally
CatchAndFinally(i, err, rawText) ==
  LET s == searches[i]
      report == ErrorReport(err, s.status, s.userQuery)
  IN /\ error' = report.error
     /\ messages' = AppendMessage(messages, report.message)
     /\ loading' = FALSE
     /\ searches' = [searches EXCEPT ![i].pc = "done", ![i].err = err,
                                     ![i].appended = Append(@, Len(messages) + 1)]
     /\ lastOp' = [op |-> "searchFailed", rawText |-> rawText]
     /\ UNCHANGED <<searchInput, recVars>>

\* line 71: the fetch rejects (responseClone is null, so the catch block
\* does not await) or resolves with a status (line 77, then the await of 78)
FetchSettle(i) ==
  /\ i \in 1..Len(searches)
  /\ searches[i].pc = "fetch"
  /\ \/ CatchAndFinally(i, ThrownError("TypeError", <<"Failed to fetch">>), "unavailable")
     \/ \E status \in StatusSet :
          /\ searches' = [searches EXCEPT ![i].pc = "json", ![i].status = status]
          /\ lastOp' = OtherOp
          /\ UNCHANGED <<chatVars, recVars>>

\* what response.json() and lines 80-82 throw for a body, if anything
JsonError(body, status) ==
  CASE body.kind = "malformed" ->
         ThrownError("SyntaxError", <<"Unexpected token < in JSON at position 0">>)
    [] body.kind = "null" ->
         ThrownError("TypeError", <<"Cannot read properties of null (reading 'error')">>)
    [] body.kind = "object" ->
         IF ResponseFailed(body, status) THEN ServerError(body, status) ELSE NoError

\* lines 78-94 and 117-119: response.json() settles; on success the bot
\* message and finally, otherwise the catch block up to the await of 100
JsonSettle(i) ==
  /\ i \in 1..Len(searches)
  /\ searches[i].pc = "json"
  /\ \E body \in BodySet :
       LET err == JsonError(body, searches[i].status)
       IN IF err = NoError
          THEN /\ messages' = AppendMessage(messages, BotMessage(body, searches[i].userQuery))
               /\ loading' = FALSE
               /\ searches' = [searches EXCEPT ![i].pc = "done", ![i].body = body,
                                  ![i].appended = Append(@, Len(messages) + 1)]
               /\ lastOp' = OtherOp
               /\ UNCHANGED <<searchInput, error, recVars>>
          ELSE /\ searches' = [searches EXCEPT ![i].pc = "text", ![i].body = body,
                                                ![i].err = err]
               /\ lastOp' = OtherOp
               /\ UNCHANGED <<chatVars, recVars>>

\* lines 98-119 without the inner try of 99-104: a rejected
\* responseClone.text() leaves the catch block before the report
TextSettleWithoutInnerTry(i) ==
  /\ i \in 1..Len(searches)
  /\ searches[i].pc = "text"
  /\ \/ CatchAndFinally(i, searches[i].err, "read")
     \/ /\ loading' = FALSE
        /\ searches' = [searches EXCEPT ![i].pc = "done"]
        /\ lastOp' = [op |-> "searchFailed", rawText |-> "failed"]
        /\ UNCHANGED <<messages, searchInput, error, recVars>>

\* lines 98-119: responseClone.text() resolves or rejects (both are only
\* logged), then the report and finally
TextSettle(i) ==
  /\ i \in 1..Len(searches)
  /\ searches[i].pc = "text"
  /\ \E resolved \in BOOLEAN :
       CatchAndFinally(i, searches[i].err, IF resolved THEN "read" ELSE "failed")

\* ------------------------------------------------- the input area (374-401)
\* the input without its disabled attribute
InputNeverDisabled == FALSE

\* line 387: disabled={loading}
InputDisabled == loading

\* line 378, on an input that is not disabled
InputChange ==
  /\ ~InputDisabled
  /\ \E value \in QuerySet :
       /\ value # searchInput
       /\ searchInput' = value
       /\ lastOp' = OtherOp
  /\ UNCHANGED <<messages, loading, error, recVars, searches>>

\* lines 381-387: Enter in the input, which is disabled while loading
KeyDownEnter ==
  /\ ~InputDisabled
  /\ HandleSearch(searchInput)

\* lines 390-392: the Send button, disabled while loading or when the
\* input trims to nothing
ClickSend ==
  /\ ~(loading \/ Trim(searchInput) = <<>>)
  /\ HandleSearch(searchInput)

\* ------------------------------------------------- recording (134-225)
\* the replies /api/stt can give to response.json(): a body that is not
\* JSON, the JSON null, an object without text, an object with a text
SttBodySet ==
  { [kind |-> "malformed"], [kind |-> "null"], [kind |-> "object", hasText |-> FALSE] }
  \cup { [kind |-> "object", hasText |-> TRUE, text |-> t] : t \in SttTextSet }

\* data?.text, as a truthy string or nothing
SttText(data) ==
  IF data.kind = "object" /\ data.hasText THEN data.text ELSE <<>>

\* one startRecording invocation, its stream and its MediaRecorder: where
\* the invocation or the recorder's onstop handler is, the readyState of
\* the stream's tracks ("none": no stream), and a history field no handler
\* reads: the number of POSTs to /api/stt made for it
NewRecording ==
  [pc |-> "getUserMedia", tracks |-> "none", posts |-> 0]

\* MediaRecorder.state = "recording"
RecorderRecording(r) == recs[r].pc = "recording"

\* lines 134-137: up to the await of getUserMedia
StartRecording ==
  /\ ~CallsExhausted
  /\ recs' = Append(recs, NewRecording)
  /\ lastOp' = OtherOp
  /\ UNCHANGED <<chatVars, isRecording, mediaRecorderRef, audioChunksRef, searches>>

\* lines 169-180 with setIsRecording(false) inside the try block, after
\* the call of stop()
StopRecordingFlagInsideTry ==
  /\ IF mediaRecorderRef # 0 /\ isRecording
     THEN IF recs[mediaRecorderRef].pc = "recording"
          THEN /\ recs' = [recs EXCEPT ![mediaRecorderRef].pc = "stopTask"]
               /\ isRecording' = FALSE
               /\ lastOp' = [op |-> "stopRecording", threw |-> FALSE]
          ELSE /\ recs' = recs
               /\ \E threw \in BOOLEAN :
                    /\ isRecording' = IF threw THEN isRecording ELSE FALSE
                    /\ lastOp' = [op |-> "stopRecording", threw |-> threw]
     ELSE /\ recs' = recs
          /\ isRecording' = isRecording
          /\ lastOp' = [op |-> "stopRecording", threw |-> FALSE]
  /\ UNCHANGED <<chatVars, mediaRecorderRef, audioChunksRef, searches>>

\* lines 169-180; MediaRecorder.stop() on an inactive recorder throws
\* InvalidStateError or does nothing, depending on the browser
StopRecording ==
  /\ IF mediaRecorderRef # 0 /\ isRecording
     THEN IF RecorderRecording(mediaRecorderRef)
          THEN /\ recs' = [recs EXCEPT ![mediaRecorderRef].pc = "stopTask"]
               /\ lastOp' = [op |-> "stopRecording", threw |-> FALSE]
          ELSE /\ recs' = recs
               /\ \E threw \in BOOLEAN :
                    lastOp' = [op |-> "stopRecording", threw |-> threw]
     ELSE /\ recs' = recs
          /\ lastOp' = [op |-> "stopRecording", threw |-> FALSE]
  /\ isRecording' = FALSE
  /\ UNCHANGED <<chatVars, mediaRecorderRef, audioChunksRef, searches>>

\* lines 182-188, from the microphone button (364-372)
ToggleRecording ==
  IF isRecording THEN StopRecording ELSE StartRecording

\* lines 137-166: getUserMedia rejects (catch), or resolves and the
\* MediaRecorder constructor rejects the mimeType (catch), or resolves and
\* the recorder starts
GetUserMediaSettle(r) ==
  /\ r \in 1..Len(recs)
  /\ recs[r].pc = "getUserMedia"
  /\ \/ /\ recs' = [recs EXCEPT ![r].pc = "denied"]
        /\ lastOp' = OtherOp
        /\ UNCHANGED <<isRecording, mediaRecorderRef, audioChunksRef>>
     \/ /\ recs' = [recs EXCEPT ![r].pc = "constructorThrew", ![r].tracks = "live"]
        /\ audioChunksRef' = <<>>
        /\ lastOp' = OtherOp
        /\ UNCHANGED <<isRecording, mediaRecorderRef>>
     \/ /\ recs' = [recs EXCEPT ![r].pc = "recording", ![r].tracks = "live"]
        /\ audioChunksRef' = <<>>
        /\ mediaRecorderRef' = r
        /\ isRecording' = TRUE
        /\ lastOp' = OtherOp
  /\ UNCHANGED <<chatVars, searches>>

\* the browser: every track of a recording stream ends (the device goes
\* away), which stops the recorder as stop() does
TrackEnded(r) ==
  /\ r \in 1..Len(recs)
  /\ RecorderRecording(r)
  /\ recs' = [recs EXCEPT ![r].pc = "stopTask", ![r].tracks = "ended"]
  /\ lastOp' = OtherOp
  /\ UNCHANGED <<chatVars, isRecording, mediaRecorderRef, audioChunksRef, searches>>

\* the task a stopped recorder queues: dataavailable (145-149) with the
\* gathered data, which may be empty, then onstop (151-154) and
\* sendAudioToBackend (190-203) up to the await of fetch, whose body is a
\* Blob of the chunks; a chunk is an opaque Blob
RecorderStopTask(r) ==
  /\ r \in 1..Len(recs)
  /\ recs[r].pc = "stopTask"
  /\ \E hasData \in BOOLEAN :
       /\ audioChunksRef' = IF hasData THEN Append(audioChunksRef, "chunk")
                                       ELSE audioChunksRef
       /\ recs' = [recs EXCEPT ![r].pc = "stt", ![r].posts = @ + 1]
  /\ lastOp' = OtherOp
  /\ UNCHANGED <<chatVars, isRecording, mediaRecorderRef, searches>>

\* line 157, after sendAudioToBackend has returned: MediaStreamTrack.stop()
\* sets readyState to "ended", and does nothing to an ended track
ReleaseTracks(tracks) == IF tracks = "live" THEN "ended" ELSE tracks

\* the end of onstop: sendAudioToBackend returns having set the error
\* string or the input or neither, then line 157
FinishOnStop(r, newError, newInput, outcome, text) ==
  /\ error' = newError
  /\ searchInput' = newInput
  /\ recs' = [recs EXCEPT ![r].pc = "done", ![r].tracks = ReleaseTracks(@)]
  /\ lastOp' = [op |-> "sttDone", outcome |-> outcome, text |-> text]
  /\ UNCHANGED <<messages, loading, isRecording, mediaRecorderRef, audioChunksRef, searches>>

SttFailed == ErrorString(<<"Speech-to-text failed.">>)
SttErrorOccurred == ErrorString(<<"Speech-to-text error occurred.">>)

\* lines 200-205 and 221-224: the /api/stt fetch rejects, or resolves with
\* response.ok false (await of 206) or true (await of 212)
SttFetchSettle(r) ==
  /\ r \in 1..Len(recs)
  /\ recs[r].pc = "stt"
  /\ \/ FinishOnStop(r, SttErrorOccurred, searchInput, "failed", <<>>)
     \/ \E ok \in BOOLEAN :
          /\ recs' = [recs EXCEPT ![r].pc = IF ok THEN "sttJson" ELSE "sttText"]
          /\ lastOp' = OtherOp
          /\ UNCHANGED <<chatVars, isRecording, mediaRecorderRef, audioChunksRef, searches>>

\* lines 206-209 and 221-224: response.text() of a non-OK reply settles
SttTextSettle(r) ==
  /\ r \in 1..Len(recs)
  /\ recs[r].pc = "sttText"
  /\ \/ FinishOnStop(r, SttFailed, searchInput, "failed", <<>>)
     \/ FinishOnStop(r, SttErrorOccurred, searchInput, "failed", <<>>)

\* lines 212-224 with line 217 (handleSearch(data.text)) not commented out
SttJsonSettleAutoSend(r) ==
  /\ r \in 1..Len(recs)
  /\ recs[r].pc = "sttJson"
  /\ \E data \in SttBodySet :
       IF data.kind = "malformed"
       THEN FinishOnStop(r, SttErrorOccurred, searchInput, "failed", <<>>)
       ELSE IF SttText(data) # <<>>
            THEN /\ messages' = AppendMessage(messages, UserMessage(data.text))
                 /\ searchInput' = <<>>
                 /\ loading' = TRUE
                 /\ error' = NullError
                 /\ searches' = Append(searches, NewSearch(data.text, Len(messages) + 1))
                 /\ recs' = [recs EXCEPT ![r].pc = "done",
                                         ![r].tracks = ReleaseTracks(@)]
                 /\ lastOp' = [op |-> "sttDone", outcome |-> "text", text |-> data.text]
                 /\ UNCHANGED <<isRecording, mediaRecorderRef, audioChunksRef>>
            ELSE FinishOnStop(r, error, searchInput, "noText", <<>>)

\* lines 212-224: response.json() of an OK reply settles
SttJsonSettle(r) ==
  /\ r \in 1..Len(recs)
  /\ recs[r].pc = "sttJson"
  /\ \E data \in SttBodySet :
       IF data.kind = "malformed"
       THEN FinishOnStop(r, SttErrorOccurred, searchInput, "failed", <<>>)
       ELSE IF SttText(data) # <<>>
            THEN FinishOnStop(r, error, SttText(data), "text", data.text)
            ELSE FinishOnStop(r, error, searchInput, "noText", <<>>)

\* ------------------------------------------------- the component
\* lines 29-38: the initial render
Init ==
  /\ messages = <<>>
  /\ searchInput = <<>>
  /\ loading = FALSE
  /\ error = NullError
  /\ isRecording = FALSE
  /\ mediaRecorderRef = 0
  /\ audioChunksRef = <<>>
  /\ searches = <<>>
  /\ recs = <<>>
  /\ lastOp = OtherOp

Next ==
  \/ InputChange
  \/ KeyDownEnter
  \/ ClickSend
  \/ \E i \in 1..MaxCalls : FetchSettle(i)
  \/ \E i \in 1..MaxCalls : JsonSettle(i)
  \/ \E i \in 1..MaxCalls : TextSettle(i)
  \/ ToggleRecording
  \/ \E r \in 1..MaxCalls : GetUserMediaSettle(r)
  \/ \E r \in 1..MaxCalls : TrackEnded(r)
  \/ \E r \in 1..MaxCalls : RecorderStopTask(r)
  \/ \E r \in 1..MaxCalls : SttFetchSettle(r)
  \/ \E r \in 1..MaxCalls : SttTextSettle(r)
  \/ \E r \in 1..MaxCalls : SttJsonSettle(r)

Spec == Init /\ [][Next]_vars

\* handleSearch called whatever the loading flag and the input, as its own
\* code allows (lines 54-56 test neither loading nor the caller):
\* submissions may overlap
CallHandleSearch ==
  \E query \in QuerySet : HandleSearch(query)

NextOverlap ==
  \/ CallHandleSearch
  \/ \E i \in 1..MaxCalls : FetchSettle(i)
  \/ \E i \in 1..MaxCalls : JsonSettle(i)
  \/ \E i \in 1..MaxCalls : TextSettle(i)

SpecOverlap == Init /\ [][NextOverlap]_vars

\* ------------------------------------------------- properties
Submissions == 1..Len(searches)
Done(i) == searches[i].pc = "done"

\* a string of nothing but white space
IsBlank(q) == \A k \in 1..Len(q) : q[k] = " "

IsPrefix(a, b) == Len(a) <= Len(b) /\ SubSeq(b, 1, Len(a)) = a

\* C1: every handleSearch call with a query that is not blank appends one
\* user message carrying the query when it is called and, once its awaits
\* have settled, one further message, from bot or system; no message of the
\* list belongs to two calls or to none, also when calls overlap.
C1_OneUserMessageOneReply ==
  /\ \A i \in Submissions :
       LET a == searches[i].appended
       IN /\ Len(a) = IF Done(i) THEN 2 ELSE 1
          /\ \A k \in 1..Len(a) : a[k] \in 1..Len(messages)
          /\ messages[a[1]].sender = "user"
          /\ messages[a[1]].text = searches[i].userQuery
          /\ ~IsBlank(searches[i].userQuery)
          /\ Done(i) => /\ a[1] < a[2]
                         /\ messages[a[2]].sender \in { "bot", "system" }
  /\ \A k \in 1..Len(messages) :
       Cardinality({ i \in Submissions :
                      \E j \in 1..Len(searches[i].appended) :
                         searches[i].appended[j] = k }) = 1

\* two overlapping submissions, both answered, the second submitted before
\* the first was answered
C1_Witness ==
  /\ Len(searches) = 2
  /\ Done(1) /\ Done(2)
  /\ searches[2].appended[1] < searches[1].appended[2]
  /\ messages[searches[1].appended[2]].sender = "bot"
  /\ messages[searches[2].appended[2]].sender = "system"

\* C2: the step that ends a handleSearch invocation, whatever its outcome,
\* leaves loading false, and loading is never true when no invocation is
\* pending.
C2_LoadingClearedAtEnd ==
  /\ [][\A i \in Submissions :
          (~Done(i) /\ searches'[i].pc = "done") => loading' = FALSE]_vars
  /\ []((\A i \in Submissions : Done(i)) => ~loading)

\* a search failed, the read of the raw response text failed too
C2_Witness ==
  /\ lastOp.op = "searchFailed"
  /\ lastOp.rawText = "failed"
  /\ \E i \in Submissions : Done(i) /\ searches[i].body.kind = "malformed"
  /\ ~loading

\* C3: a handleSearch call with an empty or blank query changes none of
\* messages, searchInput, loading and error, and issues no request.
C3_BlankQueryChangesNothing ==
  [][(lastOp'.op = "handleSearch" /\ IsBlank(lastOp'.query))
       => UNCHANGED <<messages, searchInput, loading, error, searches>>]_vars

\* Enter on a blank input, after an earlier exchange
C3_Witness ==
  /\ lastOp.op = "handleSearch"
  /\ lastOp.query = <<" ">>
  /\ searchInput = <<" ">>
  /\ Len(messages) = 2

\* C4: the step that ends a handleSearch invocation appends one message;
\* it is a bot message only if the fetch resolved with an OK status and a
\* JSON object without an error, and then carries its summary and results;
\* after a network error, a non-OK status, malformed JSON or a reported
\* error it is a system message and the error string is not null.
C4_Succeeded(s) ==
  /\ s.status \in 200..299
  /\ s.body.kind = "object"
  /\ s.body.error \in { "absent", "" }

C4_Failed(s) ==
  \/ s.status = 0
  \/ s.status \notin 200..299
  \/ s.body.kind = "malformed"
  \/ (s.body.kind = "object" /\ s.body.error \notin { "absent", "" })

C4_ReplyBySuccess ==
  [][\A i \in Submissions :
       (~Done(i) /\ searches'[i].pc = "done") =>
         LET s == searches'[i]
             reply == messages'[Len(messages')]
         IN /\ messages' = Append(messages, reply)
            /\ reply.sender = "bot" =>
                 /\ C4_Succeeded(s)
                 /\ reply.searchSummary = s.body.summary
                 /\ reply.searchResults = s.body.results
            /\ C4_Failed(s) => /\ reply.sender = "system"
                                /\ error' # NullError]_vars

\* one search answered by a bot message, one whose OK response reported an
\* error answered by a system message
C4_Witness ==
  /\ Len(searches) = 2
  /\ Done(1) /\ Done(2)
  /\ messages[searches[1].appended[2]].sender = "bot"
  /\ searches[2].status = 200 /\ searches[2].body.kind = "object"
  /\ searches[2].body.error = "boom"
  /\ messages[searches[2].appended[2]].sender = "system"
  /\ error # NullError

\* C5: no step removes, changes or moves a message: the list before a step
\* is a prefix of the list after it.
C5_MessagesAppendOnly == [][IsPrefix(messages, messages')]_vars

\* a submission answered and a recording transcribed in the same session
C5_Witness ==
  /\ Len(messages) = 2
  /\ Len(recs) = 1
  /\ recs[1].pc = "done"


\* C6: once recording has been toggled off and every pending promise and
\* task has settled, every stream whose recorder was started has its tracks
\* stopped.
C6_StreamsReleasedOnceStopped ==
  (/\ ~isRecording
   /\ \A r \in 1..Len(recs) :
        recs[r].pc \notin { "getUserMedia", "stopTask", "stt", "sttText", "sttJson" })
  => \A r \in 1..Len(recs) :
       recs[r].pc \in { "recording", "done" } => recs[r].tracks # "live"

\* C7: a stopped recorder's audio is POSTed to /api/stt once and never
\* again; the steps of sendAudioToBackend leave messages, loading and the
\* search requests alone; a reply with a text sets the input to that text;
\* a failed call sets one of the two generic error strings.
C7_SttPcs == { "stt", "sttText", "sttJson" }

C7_SttFillsInputOnly ==
  [][/\ \A r \in 1..Len(recs) :
          /\ (recs[r].pc = "stopTask" /\ recs'[r] # recs[r])
               => (recs'[r].pc = "stt" /\ recs'[r].posts = 1)
          /\ (recs[r].pc \in C7_SttPcs /\ recs'[r] # recs[r])
               => /\ recs'[r].posts = 1
                  /\ recs'[r].pc \in C7_SttPcs \cup { "done" }
                  /\ UNCHANGED <<messages, loading, searches>>
     /\ lastOp'.op = "sttDone" =>
          /\ UNCHANGED <<messages, loading, searches>>
          /\ lastOp'.outcome = "text" =>
               (searchInput' = lastOp'.text /\ lastOp'.text # <<>> /\ error' = error)
          /\ lastOp'.outcome = "noText" => UNCHANGED <<searchInput, error>>
          /\ lastOp'.outcome = "failed" =>
               /\ error' \in { ErrorString(<<"Speech-to-text failed.">>),
                               ErrorString(<<"Speech-to-text error occurred.">>) }
               /\ searchInput' = searchInput]_vars

\* a transcription arrives while a search is pending and fills the input
C7_Witness ==
  /\ lastOp.op = "sttDone"
  /\ lastOp.outcome = "text"
  /\ searchInput = lastOp.text
  /\ Len(messages) = 1
  /\ loading
  /\ recs[1].posts = 1

\* C8: a call of stopRecording leaves isRecording false, also when no chunk
\* was captured and when MediaRecorder.stop() threw.
C8_StopClearsRecordingFlag ==
  lastOp.op = "stopRecording" => ~isRecording

\* stop() threw on a recorder the browser had already stopped, no chunk
\* captured
C8_Witness ==
  /\ lastOp.op = "stopRecording"
  /\ lastOp.threw
  /\ audioChunksRef = <<>>
  /\ mediaRecorderRef # 0

\* C9: the failure that ends a handleSearch invocation is reported with the
\* fixed 404 texts when the status is 404 and the body is not JSON, and
\* otherwise with the error's own message (data.error, or "Server error: "
\* and the status) as the error string and, with the query, in the system
\* message.
C9_OwnMessage(s) ==
  IF s.body.kind = "object"
  THEN IF s.body.error \in { "absent", "" }
       THEN <<"Server error: ", StatusText(s.status)>>
       ELSE <<s.body.error>>
  ELSE s.err.message

C9_ErrorTexts ==
  [][\A i \in Submissions :
       (~Done(i) /\ searches'[i].pc = "done"
          /\ messages'[Len(messages')].sender = "system") =>
         LET s == searches'[i]
             reply == messages'[Len(messages')]
         IN IF s.status = 404 /\ s.body.kind = "malformed"
            THEN /\ error' = ErrorString(<<"API endpoint not found (404). Please check the server route.">>)
                 /\ reply.text = <<"Error: API endpoint /api/search not found (404).">>
            ELSE /\ error' = ErrorString(C9_OwnMessage(s))
                 /\ C9_OwnMessage(s) # <<>>
                 /\ reply.text = <<"Error searching for \"">> \o s.userQuery
                                   \o <<"\": ">> \o C9_OwnMessage(s)]_vars

\* a 404 whose body is not JSON, after a 404 whose body is JSON
C9_Witness ==
  /\ Len(searches) = 2
  /\ Done(1) /\ Done(2)
  /\ searches[1].status = 404 /\ searches[1].body.kind = "object"
  /\ messages[2].text = <<"Error searching for \"", " ", "a", " ", "\": ",
                          "Server error: ", "404">>
  /\ searches[2].status = 404 /\ searches[2].body.kind = "malformed"
  /\ error = ErrorString(<<"API endpoint not found (404). Please check the server route.">>)

\* C10: while a handleSearch invocation is pending, loading is true.
C10_PendingImpliesLoading ==
  (\E i \in Submissions : ~Done(i)) => loading

\* a second search pending after a first one was answered
C10_Witness ==
  /\ Len(searches) = 2
  /\ Done(1)
  /\ searches[2].pc = "text"
  /\ loading

\* C11: at most one MediaRecorder is recording at a time, and a recorder
\* that is recording is the one held in mediaRecorderRef, with isRecording
\* true.
C11_OneRecorderHeldByRef ==
  LET recording == { r \in 1..Len(recs) : recs[r].pc = "recording" }
  IN /\ Cardinality(recording) <= 1
     /\ \A r \in recording : mediaRecorderRef = r /\ isRecording

====
